---- MODULE Spec2Model ----
(***************************************************************************)
(* A model of image_tiles: the path mangling of the web endpoint, the     *)
(* index page and the per-image request pipeline, the storage resolver,   *)
(* the channel renderer, the array reformatter and the normalization      *)
(* algorithms.                                                             *)
(*                                                                         *)
(* Strings are sequences of one-character strings, so that slicing        *)
(* (s[5:]), prefix tests and str.replace act on characters as in Python.  *)
(***************************************************************************)
EXTENDS Integers, Sequences, FiniteSets, TLC

VARIABLES
    ext_path,       \* SpecPath: the scheme-qualified path given to server_path
    url,            \* SpecPath: the URL server_path produced ("" before)
    recovered,      \* SpecPath: the path read_and_render_image hands to exists
    data,           \* SpecRender: the decoded array given to _render_image_data
    render_method,  \* SpecRender: the render mode
    rendered,       \* SpecRender: the result of _render_image_data (NoResult before)
    norm_input,     \* SpecNorm: the array given to a normalization function
    call,           \* SpecNorm: the normalization call made (NoCall before)
    normed,         \* SpecNorm: what the call returned or raised (NoResult before)
    args,           \* Spec: the startup configuration (parse_args)
    storage,        \* Spec: the files in storage
    request,        \* Spec: the last HTTP request handled (NoRequest before)
    response,       \* Spec: what its handler returned or raised
    lookup,         \* SpecStorage: the glob or exists call made (NoLookup before)
    answer          \* SpecStorage: what the call returned or raised

pathVars == <<ext_path, url, recovered>>
renderVars == <<data, render_method, rendered>>
normVars == <<norm_input, call, normed>>
serverVars == <<args, storage, request, response>>
storageVars == <<lookup, answer>>

vars == <<pathVars, renderVars, normVars, serverVars, storageVars>>

(***************************************************************************)
(* Python string primitives on character sequences.                       *)
(***************************************************************************)

\* s[n:] (n >= 0)
Drop(s, n) == IF n >= Len(s) THEN <<>> ELSE SubSeq(s, n + 1, Len(s))

\* s.startswith(prefix)
StartsWith(s, prefix) ==
    /\ Len(prefix) <= Len(s)
    /\ SubSeq(s, 1, Len(prefix)) = prefix

\* sub in s
Contains(s, sub) ==
    \E i \in 0..(Len(s) - Len(sub)) : SubSeq(s, i + 1, i + Len(sub)) = sub

\* s.replace(old, new): every non-overlapping occurrence, left to right
RECURSIVE Replace(_, _, _)
Replace(s, old, new) ==
    IF s = <<>> THEN <<>>
    ELSE IF StartsWith(s, old) THEN new \o Replace(Drop(s, Len(old)), old, new)
    ELSE <<Head(s)>> \o Replace(Tail(s), old, new)

\* sep.join(parts)
RECURSIVE Join(_, _)
Join(parts, sep) ==
    IF parts = <<>> THEN <<>>
    ELSE IF Len(parts) = 1 THEN parts[1]
    ELSE parts[1] \o sep \o Join(Tail(parts), sep)

Slash == <<"/">>
S3Scheme == <<"s", "3", ":", "/", "/">>
GsScheme == <<"g", "s", ":", "/", "/">>
ImagesPrefix == <<"i", "m", "a", "g", "e", "s", "/">>

(***************************************************************************)
(* image_tiles_server.py: path mangling.                                  *)
(***************************************************************************)

\* server_path(ext_path)
server_path(p) ==
    IF Contains(p, S3Scheme) THEN ImagesPrefix \o <<"s", "3", "/">> \o Drop(p, 5)
    ELSE IF Contains(p, GsScheme) THEN ImagesPrefix \o Drop(p, 3)
    ELSE ImagesPrefix \o Drop(p, 1)

\* The image_path the route /images/<path:image_path> binds for a URL that
\* server_path produced: the URL without its leading "images/".
RoutePath(u) == Drop(u, Len(ImagesPrefix))

\* image(): full_path = f"/{image_path}"
FullPath(image_path) == Slash \o image_path

\* read_and_render_image, "Rewrite based on the input": the path handed to
\* exists()
RewritePath(path) ==
    IF StartsWith(path, <<"/", "s", "3">>)
        THEN Replace(path, <<"/", "s", "3", "/">>, S3Scheme)
    ELSE IF StartsWith(path, <<"/", "g", "s">>)
        THEN Replace(path, <<"/", "g", "s", "/">>, GsScheme)
    ELSE path

(***************************************************************************)
(* Arrays.  A numpy array is a record of its shape, its dtype and its     *)
(* elements in row-major order.  Element values are exact rationals       *)
(* data[n] / den: den is 1 for integer-valued arrays and 100 for the      *)
(* luma of render mode bw (weights 0.30, 0.59, 0.11).                     *)
(***************************************************************************)

RECURSIVE Product(_)
Product(shape) == IF shape = <<>> THEN 1 ELSE Head(shape) * Product(Tail(shape))

Array(shape, dtype, den, elems) ==
    [shape |-> shape, dtype |-> dtype, den |-> den, data |-> elems]

\* a[i, j, k] of a rank-3 array, indices from 0
At3(a, i, j, k) == a.data[(i * a.shape[2] + j) * a.shape[3] + k + 1]

\* a[:, :, lo:hi] of a rank-3 array: Python clips the slice to the axis
SliceChannels(a, lo, hi) ==
    LET H == a.shape[1]
        W == a.shape[2]
        stop == IF hi > a.shape[3] THEN a.shape[3] ELSE hi
        start == IF lo > stop THEN stop ELSE lo
        C == stop - start
    IN  Array(<<H, W, C>>, a.dtype, a.den,
              [n \in 1..(H * W * C) |->
                  At3(a, (n - 1) \div (W * C), ((n - 1) \div C) % W,
                      start + ((n - 1) % C))])

\* Variant of ReverseChannels: the channel order is left as it is.
ReverseChannelsKept(a) == a

\* a[:, :, ::-1] of a rank-3 array
ReverseChannels(a) ==
    LET H == a.shape[1]
        W == a.shape[2]
        C == a.shape[3]
    IN  Array(a.shape, a.dtype, a.den,
              [n \in 1..(H * W * C) |->
                  At3(a, (n - 1) \div (W * C), ((n - 1) \div C) % W,
                      C - 1 - ((n - 1) % C))])

\* np.expand_dims(a, -1)
ExpandLast(a) == Array(a.shape \o <<1>>, a.dtype, a.den, a.data)

\* The dtype of (Python float) * array: float32 stays float32, every integer
\* dtype and float64 give float64.
FloatResultType(dtype) == IF dtype = "float32" THEN "float32" ELSE "float64"

\* 0.30 * a[:, :, 0] + 0.59 * a[:, :, 1] + 0.11 * a[:, :, 2], in hundredths
Luma(a) ==
    LET H == a.shape[1]
        W == a.shape[2]
    IN  Array(<<H, W>>, FloatResultType(a.dtype), 100 * a.den,
              [n \in 1..(H * W) |->
                  30 * At3(a, (n - 1) \div W, (n - 1) % W, 0)
                      + 59 * At3(a, (n - 1) \div W, (n - 1) % W, 1)
                      + 11 * At3(a, (n - 1) \div W, (n - 1) % W, 2)])

\* The outcome of a call: a value, or the exception it raised.
Ok(v) == [ok |-> TRUE, value |-> v]
Raise(e) == [ok |-> FALSE, error |-> e]

\* No array, and no outcome yet.
NoArray == Array(<<>>, "none", 1, <<>>)
NoResult == Raise("none")

(***************************************************************************)
(* image.py: the channel renderer.                                        *)
(***************************************************************************)

RenderMethods == {"rgb", "bgr", "sentinel", "bw"}

\* _render_image_data(data, render_method), for an array of rank 2 or 3
RenderImageData(a, method) ==
    IF Len(a.shape) = 2 THEN Ok(ExpandLast(a))
    ELSE IF a.shape[3] >= 3 THEN
        CASE method = "rgb" -> Ok(SliceChannels(a, 0, 3))
          [] method = "bgr" -> Ok(ReverseChannels(SliceChannels(a, 0, 3)))
          [] method = "sentinel" -> Ok(ReverseChannels(SliceChannels(a, 1, 4)))
          [] method = "bw" -> Ok(ExpandLast(Luma(a)))
          [] OTHER -> Raise("ValueError")
    ELSE Raise("ValueError")

(***************************************************************************)
(* normalization.py: the array reformatter.                               *)
(***************************************************************************)

\* np.expand_dims(a, 0)
ExpandFirst(a) == Array(<<1>> \o a.shape, a.dtype, a.den, a.data)

\* np.squeeze(a): every axis of size 1 is removed
Squeeze(a) ==
    Array(SelectSeq(a.shape, LAMBDA d : d # 1), a.dtype, a.den, a.data)

\* a[i0, i1, i2, i3] of a rank-4 array, indices from 0
At4(a, i0, i1, i2, i3) ==
    a.data[((i0 * a.shape[2] + i1) * a.shape[3] + i2) * a.shape[4] + i3 + 1]

\* np.einsum("bwhc->bcwh", a): out[b, c, w, h] = a[b, w, h, c]
ToFirst(a) ==
    LET B == a.shape[1]
        W == a.shape[2]
        H == a.shape[3]
        C == a.shape[4]
    IN  Array(<<B, C, W, H>>, a.dtype, a.den,
              [n \in 1..(B * C * W * H) |->
                  At4(a, (n - 1) \div (C * W * H), ((n - 1) \div H) % W,
                      (n - 1) % H, ((n - 1) \div (W * H)) % C)])

\* np.einsum("bcwh->bwhc", a): out[b, w, h, c] = a[b, c, w, h]
ToLast(a) ==
    LET B == a.shape[1]
        C == a.shape[2]
        W == a.shape[3]
        H == a.shape[4]
    IN  Array(<<B, W, H, C>>, a.dtype, a.den,
              [n \in 1..(B * W * H * C) |->
                  At4(a, (n - 1) \div (W * H * C), (n - 1) % C,
                      ((n - 1) \div (H * C)) % W, ((n - 1) \div C) % H)])

\* _format_array(image, batch_operation, channel_operation); einsum raises
\* ValueError for an operand that is not of rank 4
FormatArray(image, batch_operation, channel_operation) ==
    LET expanded == IF batch_operation = "expand" THEN ExpandFirst(image) ELSE image
    IN  IF channel_operation \in {"to_first", "to_last"} /\ Len(expanded.shape) # 4
            THEN Raise("ValueError")
        ELSE LET ordered ==
                     CASE channel_operation = "to_first" -> ToFirst(expanded)
                       [] channel_operation = "to_last" -> ToLast(expanded)
                       [] OTHER -> expanded
             IN  Ok(IF batch_operation = "squeeze" THEN Squeeze(ordered) ELSE ordered)

\* _get_format_fx(image, image_channel_format): the operations of apply_fx
\* and of revert_fx
GetFormatFx(image, image_channel_format) ==
    LET add_batch == Len(image.shape) = 3
        convert_ordering == image_channel_format = "first"
    IN  [apply_batch |-> IF add_batch THEN "expand" ELSE "None",
         apply_ordering |-> IF convert_ordering THEN "to_last" ELSE "None",
         revert_batch |-> IF add_batch THEN "squeeze" ELSE "None",
         revert_ordering |-> IF convert_ordering THEN "to_first" ELSE "None"]

(***************************************************************************)
(* normalization.py: the normalization algorithms.                        *)
(*                                                                         *)
(* astype(np.uint8) truncates a value of [0, 256); the cast of NaN or of  *)
(* a value outside that range is undefined in C, and ub is the value the  *)
(* build produces for it.                                                 *)
(***************************************************************************)

SetMax(S) == CHOOSE x \in S : \A y \in S : y <= x
SetMin(S) == CHOOSE x \in S : \A y \in S : x <= y
Elements(elems) == { elems[n] : n \in DOMAIN elems }

\* The values a cast of NaN or of an out-of-range value to uint8 produces.
UndefinedCasts == {0, 255}

\* astype(np.uint8) of the rational num / d (d > 0)
CastUint8(num, d, ub) ==
    IF num >= 0 /\ num < 256 * d THEN num \div d ELSE ub

\* Variant of ScalingNormalization: negative pixels are not clipped to 0.
ScalingNormalizationNoClip(image, ub) ==
    LET maxv == SetMax(Elements(image.data))
    IN  Ok(Array(image.shape, "uint8", 1,
                 [n \in DOMAIN image.data |->
                     IF maxv = 0 THEN ub
                     ELSE CastUint8(255 * image.data[n], maxv, ub)]))

\* scaling_normalization(image)
ScalingNormalization(image, ub) ==
    LET clipped == [n \in DOMAIN image.data |->
                       IF image.data[n] <= 0 THEN 0 ELSE image.data[n]]
        maxv == SetMax(Elements(clipped))
    IN  Ok(Array(image.shape, "uint8", 1,
                 [n \in DOMAIN clipped |->
                     IF maxv = 0 THEN ub
                     ELSE CastUint8(255 * clipped[n], maxv, ub)]))

\* Variant of StandardNormalization: the dtype is not looked at.
StandardNormalizationAnyDtype(image, ub) ==
    IF Len(image.shape) # 3 THEN Raise("ValueError")
    ELSE IF image.shape[3] \in {1, 3, 4} THEN Ok(image)
    ELSE ScalingNormalization(image, ub)

\* standard_normalization(image): "_, _, c = image.shape" raises ValueError
\* unless the rank is 3
StandardNormalization(image, ub) ==
    IF Len(image.shape) # 3 THEN Raise("ValueError")
    ELSE IF image.shape[3] \in {1, 3, 4} /\ image.dtype \in {"float32", "uint8"}
        THEN Ok(image)
    ELSE ScalingNormalization(image, ub)

RECURSIVE GCD(_, _)
GCD(a, b) == IF b = 0 THEN a ELSE GCD(b, a % b)

\* trunc(255 * (1 / (1 + exp(10.0 * (0.125 - num / d))))) in float64, for
\* 0 <= num <= d <= 7: row d, column num + 1
SigmoidTable ==
    << <<56, 254>>,
       <<56, 249, 254>>,
       <<56, 226, 253, 254>>,
       <<56, 198, 249, 254, 254>>,
       <<56, 173, 239, 252, 254, 254>>,
       <<56, 153, 226, 249, 253, 254, 254>>,
       <<56, 138, 212, 243, 252, 254, 254, 254>> >>

\* The sigmoid contrast enhancement of the normalized value num / d, times
\* max_pixel_val, cast to uint8 (c = 10.0, th = 0.125)
SigmoidPixel(num, d) ==
    LET g == GCD(num, d)
    IN  SigmoidTable[d \div g][(num \div g) + 1]

\* The elements of batch element b (from 0) of a rank-4 array
BatchElements(a, b) ==
    LET size == a.shape[2] * a.shape[3] * a.shape[4]
    IN  SubSeq(a.data, b * size + 1, (b + 1) * size)

\* np.nanmin / np.nanmax(image, axis=(1, 2, 3)) of batch element b
BatchMin(a, b) == SetMin(Elements(BatchElements(a, b)))
BatchMax(a, b) == SetMax(Elements(BatchElements(a, b)))

\* sigmoid_normalization(image, channels=channels), with c and th at their
\* defaults; the reductions over axes (1, 2, 3) raise AxisError unless the
\* formatted array is of rank 4
SigmoidNormalization(image, channels) ==
    LET fx == GetFormatFx(image, channels)
        applied == FormatArray(image, fx.apply_batch, fx.apply_ordering)
    IN  IF ~applied.ok THEN applied
        ELSE IF Len(applied.value.shape) # 4 THEN Raise("AxisError")
        ELSE
            LET x == applied.value
                size == x.shape[2] * x.shape[3] * x.shape[4]
                range_val(b) ==
                    IF BatchMax(x, b) - BatchMin(x, b) > x.den
                        THEN BatchMax(x, b) - BatchMin(x, b) ELSE x.den
                normalized ==
                    Array(x.shape, "float64", 1,
                          [n \in DOMAIN x.data |->
                              SigmoidPixel(x.data[n] - BatchMin(x, (n - 1) \div size),
                                           range_val((n - 1) \div size))])
                reverted == FormatArray(normalized, fx.revert_batch, fx.revert_ordering)
            IN  IF ~reverted.ok THEN reverted
                ELSE Ok([reverted.value EXCEPT !.dtype = "uint8"])

\* invert_mean_std_normalization(image, mean, std, channels) for an image
\* of rank 3 or 4 and float mean and std, one value per channel: mean and
\* std are broadcast along the last axis of the canonical array, and the
\* result is not cast
InvertMeanStdNormalization(image, mean, std, channels) ==
    LET fx == GetFormatFx(image, channels)
        applied == FormatArray(image, fx.apply_batch, fx.apply_ordering)
    IN  IF ~applied.ok THEN applied
        ELSE
            LET x == applied.value
                C == x.shape[Len(x.shape)]
            IN  IF Len(mean) # C \/ Len(std) # C THEN Raise("ValueError")
                ELSE
                    LET normalized ==
                            Array(x.shape, "float64", x.den,
                                  [n \in DOMAIN x.data |->
                                      x.data[n] * std[((n - 1) % C) + 1]
                                          + mean[((n - 1) % C) + 1] * x.den])
                    IN  FormatArray(normalized, fx.revert_batch, fx.revert_ordering)

\* Variant of SentinelTruecolorImage: a channel equal to the normalizer
\* saturates the pixel too (>= for >).
SentinelTruecolorImageGeq(image, normalizer, ub) ==
    IF image.shape[3] # 3 THEN Raise("AssertionError")
    ELSE
        LET saturated_idx_flat(q) ==
                \E k \in 0..2 : image.data[3 * q + k + 1] >= normalizer * image.den
        IN  Ok(Array(image.shape, "uint8", 1,
                     [n \in DOMAIN image.data |->
                         IF saturated_idx_flat((n - 1) \div 3) THEN 255
                         ELSE CastUint8(255 * image.data[n],
                                        normalizer * image.den, ub)]))

\* sentinel_truecolor_image(image, normalizer), for an array of rank 3
SentinelTruecolorImage(image, normalizer, ub) ==
    IF image.shape[3] # 3 THEN Raise("AssertionError")
    ELSE
        LET saturated_idx_flat(q) ==
                \E k \in 0..2 : image.data[3 * q + k + 1] > normalizer * image.den
        IN  Ok(Array(image.shape, "uint8", 1,
                     [n \in DOMAIN image.data |->
                         IF saturated_idx_flat((n - 1) \div 3) THEN 255
                         ELSE CastUint8(255 * image.data[n],
                                        normalizer * image.den, ub)]))

(***************************************************************************)
(* glob.py and file_exists.py: the storage resolver.  The storage is a    *)
(* sequence of files [path, content], the S3 objects among them in the    *)
(* order the bucket lists them.                                           *)
(***************************************************************************)

\* s.split(sep), sep one character
RECURSIVE Split(_, _)
Split(s, sep) ==
    IF \A n \in DOMAIN s : s[n] # sep THEN <<s>>
    ELSE LET i == CHOOSE n \in DOMAIN s :
                      s[n] = sep /\ \A m \in 1..(n - 1) : s[m] # sep
         IN  <<SubSeq(s, 1, i - 1)>> \o Split(Drop(s, i), sep)

\* s.rstrip("/")
RECURSIVE RStripSlash(_)
RStripSlash(s) ==
    IF s # <<>> /\ s[Len(s)] = "/" THEN RStripSlash(SubSeq(s, 1, Len(s) - 1)) ELSE s

\* os.path.split(path)[0]
OsPathSplitHead(path) ==
    LET slashes == { n \in DOMAIN path : path[n] = "/" }
        i == IF slashes = {} THEN 0 ELSE SetMax(slashes)
        head == SubSeq(path, 1, i)
    IN  IF head # <<>> /\ (\E n \in DOMAIN head : head[n] # "/")
            THEN RStripSlash(head) ELSE head

\* os.path.join(a, b) for a relative b
OsPathJoin(a, b) ==
    IF a = <<>> \/ a[Len(a)] = "/" THEN a \o b ELSE a \o Slash \o b

\* The place of the "]" that closes the character class pat starts with,
\* 0 when the "[" is not closed and so stands for itself: a "]" right
\* after "[" or "[!" is a member of the class
ClassEnd(pat) ==
    LET n == Len(pat)
        j1 == IF 2 <= n /\ pat[2] = "!" THEN 3 ELSE 2
        j2 == IF j1 <= n /\ pat[j1] = "]" THEN j1 + 1 ELSE j1
        closing == { k \in j2..n : pat[k] = "]" }
    IN  IF closing = {} THEN 0 ELSE SetMin(closing)

\* c is matched by the class pat[1..close]: "[seq]" matches a character of
\* seq, "[!seq]" a character not in seq (the modelled classes hold no
\* range "a-b")
ClassMatch(c, pat, close) ==
    LET negated == pat[2] = "!"
        members == { pat[k] : k \in (IF negated THEN 3 ELSE 2)..(close - 1) }
    IN  (c \in members) # negated

\* fnmatch.fnmatch(name, pat): "*" matches any run of characters ("/"
\* included), "?" one character, "[seq]" and "[!seq]" one character in or
\* not in seq, every other character itself
RECURSIVE FnMatch(_, _)
FnMatch(name, pat) ==
    IF pat = <<>> THEN name = <<>>
    ELSE IF Head(pat) = "*"
        THEN \E n \in 0..Len(name) : FnMatch(Drop(name, n), Tail(pat))
    ELSE IF Head(pat) = "[" /\ ClassEnd(pat) # 0
        THEN /\ name # <<>>
             /\ ClassMatch(Head(name), pat, ClassEnd(pat))
             /\ FnMatch(Tail(name), Drop(pat, ClassEnd(pat)))
    ELSE /\ name # <<>>
         /\ (Head(pat) = "?" \/ Head(pat) = Head(name))
         /\ FnMatch(Tail(name), Tail(pat))

\* _filter_sequences(pattern, search_list)
FilterSequences(pattern, search_list) ==
    SelectSeq(search_list, LAMBDA filename : FnMatch(filename, pattern))

\* The buckets that exist in S3.
Buckets == { <<"b">> }

StorePaths(store) == [n \in DOMAIN store |-> store[n].path]

\* paginator.paginate(Bucket=bucket, Prefix=prefix): the keys of the bucket
\* that start with prefix, in listing order
ListObjects(store, bucket, prefix) ==
    LET root == S3Scheme \o bucket \o Slash
        inBucket == SelectSeq(StorePaths(store), LAMBDA f : StartsWith(f, root))
        keys == [n \in DOMAIN inBucket |-> Drop(inBucket[n], Len(root))]
    IN  SelectSeq(keys, LAMBDA key : StartsWith(key, prefix))

\* _aws_glob(path): the unpacking of full_path.split("/") raises ValueError
\* for fewer than 3 parts, the listing raises ClientError for a bucket that
\* does not exist
AwsGlob(store, path) ==
    LET full_path == OsPathSplitHead(path)
        parts == Split(full_path, "/")
    IN  IF Len(parts) < 3 THEN Raise("ValueError")
        ELSE LET bucket == parts[3]
                 remaining == SubSeq(parts, 4, Len(parts))
                 prefix == Replace(Join(remaining, Slash), <<"/", "*", "*">>, <<>>)
             IN  IF bucket \notin Buckets THEN Raise("ClientError")
                 ELSE LET keys == ListObjects(store, bucket, prefix)
                          filenames == [n \in DOMAIN keys |->
                                           S3Scheme \o bucket \o Slash \o keys[n]]
                      IN  Ok(FilterSequences(path, filenames))

\* The entries of the local filesystem: the files and their directories.
LocalFiles(store) ==
    { store[n].path : n \in { m \in DOMAIN store : store[m].path[1] = "/" } }

LocalEntries(store) ==
    LocalFiles(store)
        \cup UNION { { SubSeq(f, 1, n - 1) : n \in { m \in 2..Len(f) : f[m] = "/" } } :
                       f \in LocalFiles(store) }

\* One path segment against one pattern segment: a pattern that starts with
\* a wildcard does not match a hidden name.
SegmentMatch(name, pat) ==
    /\ FnMatch(name, pat)
    /\ ~(pat # <<>> /\ pat[1] \in {"*", "?"} /\ name # <<>> /\ name[1] = ".")

\* _local_glob(path): glob.glob matches segment by segment; the order of
\* its result is that of the directory, which is not specified
LocalGlob(store, path) ==
    LET pats == Split(path, "/")
    IN  { e \in LocalEntries(store) :
            LET segs == Split(e, "/")
            IN  /\ Len(segs) = Len(pats)
                /\ \A n \in DOMAIN segs : SegmentMatch(segs[n], pats[n]) }

\* A sequence that lists the set S in some order.
SomeOrder(S) ==
    CHOOSE seq \in [1..Cardinality(S) -> S] : { seq[n] : n \in DOMAIN seq } = S

\* glob(path)
Glob(store, path) ==
    IF Contains(path, S3Scheme) THEN AwsGlob(store, path)
    ELSE IF Contains(path, GsScheme) THEN Raise("NotImplementedError")
    ELSE Ok(SomeOrder(LocalGlob(store, path)))

\* _aws_exists(path): open(path) raises OSError unless an object is stored
\* at the path; only ClientError is caught around the glob
AwsExists(store, path) ==
    LET opened == \E n \in DOMAIN store : store[n].path = path
        items == Glob(store, OsPathJoin(path, <<"*">>))
    IN  IF items.ok THEN Ok(opened \/ items.value # <<>>)
        ELSE IF items.error = "ClientError" THEN Ok(opened)
        ELSE items

\* _local_exists(path)
LocalExists(store, path) == path \in LocalEntries(store)

\* exists(path)
Exists(store, path) ==
    IF Contains(path, S3Scheme) THEN AwsExists(store, path)
    ELSE IF Contains(path, GsScheme) THEN Raise("NotImplementedError")
    ELSE Ok(LocalExists(store, path))

(***************************************************************************)
(* image.py and image_tiles_server.py: the request handlers.              *)
(***************************************************************************)

\* What a file holds: the format of its bytes and the array they decode to.
Content(format, array) == [format |-> format, array |-> array]

\* get_supported_extensions(): the extensions PIL opens (".png" and ".jpg"
\* of them) and ".tif", ".tiff"
SupportedExtensions ==
    { <<".", "p", "n", "g">>, <<".", "j", "p", "g">>,
      <<".", "t", "i", "f">>, <<".", "t", "i", "f", "f">> }

\* f.split(".")[-1]
LastDotPart(f) == LET parts == Split(f, ".") IN parts[Len(parts)]

\* get_image_files(folder)
GetImageFiles(st, folder) ==
    LET filelist == Glob(st, OsPathJoin(folder, <<"*">>))
    IN  IF ~filelist.ok THEN filelist
        ELSE Ok(SelectSeq(filelist.value,
                          LAMBDA f : (<<".">> \o LastDotPart(f)) \in SupportedExtensions))

\* The reader read_image selects, applied to the bytes of a file: tifffile
\* reads TIFF only, imageio reads every image format
Decode(path, content) ==
    IF LastDotPart(path) \in { <<"t", "i", "f", "f">>, <<"t", "i", "f">> }
        THEN IF content.format = "tiff" THEN Ok(content.array)
             ELSE Raise("TiffFileError")
    ELSE IF content.format \in {"png", "tiff"} THEN Ok(content.array)
    ELSE Raise("DecodeError")

\* normalizer: int = 2000
DefaultNormalizer == 2000

\* normalize_fx[normalize](rendered_data)
Normalize(normalize, a, ub) ==
    CASE normalize = "standard" -> StandardNormalization(a, ub)
      [] normalize = "scaling" -> ScalingNormalization(a, ub)
      [] normalize = "sigmoid" -> SigmoidNormalization(a, "last")
      [] normalize = "sentinel" -> SentinelTruecolorImage(a, DefaultNormalizer, ub)

\* The outcome of a call with the steps it executed.
Traced(result, steps) == [result |-> result, steps |-> steps]

\* read_image(path, normalize, render_method): open() raises OSError unless
\* the path is a stored file
ReadImage(st, path, normalize, method, ub) ==
    IF \A n \in DOMAIN st : st[n].path # path
        THEN Traced(Raise("OSError"), <<"read">>)
    ELSE
        LET file == st[CHOOSE n \in DOMAIN st : st[n].path = path]
            decoded == Decode(path, file.content)
        IN  IF ~decoded.ok THEN Traced(decoded, <<"read", "decode">>)
            ELSE
                LET rendered_data == RenderImageData(decoded.value, method)
                IN  IF ~rendered_data.ok
                        THEN Traced(rendered_data, <<"read", "decode", "render">>)
                    ELSE IF normalize = "None"
                        THEN Traced(rendered_data, <<"read", "decode", "render">>)
                    ELSE Traced(Normalize(normalize, rendered_data.value, ub),
                                <<"read", "decode", "render", "normalize">>)

\* What a handler did: the exception that left it ("none" when it
\* returned), the response's content type and body, the steps executed and
\* the path looked up.
Outcome(raised, mimetype, body, steps, path) ==
    [raised |-> raised, mimetype |-> mimetype, body |-> body,
     steps |-> steps, path |-> path]

\* An empty body, and the PNG bytes of an array.
EmptyBody == [png |-> FALSE, image |-> NoArray]
PngBody(a) == [png |-> TRUE, image |-> a]

\* image(image_path) reading the file without the existence check.
ImageUnchecked(st, config, image_path, ub, strict) ==
    LET path == RewritePath(FullPath(image_path))
        array == ReadImage(st, path, config.normalization,
                           config.render_method, ub)
    IN  IF ~array.result.ok
            THEN Outcome(array.result.error, "none", EmptyBody, array.steps, path)
        ELSE IF strict /\ array.result.value.dtype # "uint8"
            THEN Outcome("TypeError", "none", EmptyBody,
                         array.steps \o <<"encode">>, path)
        ELSE Outcome("none", "image/png", PngBody(array.result.value),
                     array.steps \o <<"encode">>, path)

\* image(image_path) with read_and_render_image(full_path); imageio.imwrite
\* writes a uint8 array as PNG, and strict tells whether it rejects an array
\* of another dtype
Image(st, config, image_path, ub, strict) ==
    LET path == RewritePath(FullPath(image_path))
        found == Exists(st, path)
    IN  IF ~found.ok
            THEN Outcome(found.error, "none", EmptyBody, <<"exists">>, path)
        ELSE IF ~found.value
            THEN Outcome("none", "image/png", EmptyBody, <<"exists">>, path)
        ELSE
            LET array == ReadImage(st, path, config.normalization,
                                   config.render_method, ub)
            IN  IF ~array.result.ok
                    THEN Outcome(array.result.error, "none", EmptyBody,
                                 <<"exists">> \o array.steps, path)
                ELSE IF strict /\ array.result.value.dtype # "uint8"
                    THEN Outcome("TypeError", "none", EmptyBody,
                                 <<"exists">> \o array.steps \o <<"encode">>, path)
                ELSE Outcome("none", "image/png", PngBody(array.result.value),
                             <<"exists">> \o array.steps \o <<"encode">>, path)

\* filelist[0:num_items]: a negative stop counts from the end
SliceTo(seq, stop) ==
    LET end == IF stop < 0 THEN Len(seq) + stop ELSE stop
    IN  IF end <= 0 THEN <<>>
        ELSE IF end >= Len(seq) THEN seq
        ELSE SubSeq(seq, 1, end)

\* The orders random.shuffle can leave a list of n items in.
Shuffles(n) == { f \in [1..n -> 1..n] : \A i, j \in 1..n : f[i] = f[j] => i = j }

\* What index() hands the template (num_images, items), with the file list
\* the items were made from.
Page(raised, num_images, filelist, items) ==
    [raised |-> raised, num_images |-> num_images,
     filelist |-> filelist, items |-> items]

\* index(): num_items is args.num_items unless the query gives one (has_query,
\* query_num_items); shuffle is the order random.shuffle leaves
Index(st, config, has_query, query_num_items, shuffle) ==
    LET num_items == IF has_query THEN query_num_items ELSE config.num_items
        found == GetImageFiles(st, config.folder_path)
    IN  IF ~found.ok THEN Page(found.error, num_items, <<>>, <<>>)
        ELSE LET shuffled == [n \in DOMAIN found.value |-> found.value[shuffle[n]]]
                 filelist == SliceTo(shuffled, num_items)
             IN  Page("none", num_items, filelist,
                      [n \in DOMAIN filelist |-> server_path(filelist[n])])

(***************************************************************************)
(* Each specification below exercises one part of the program; the        *)
(* variables of the other parts stay at their idle values.                *)
(***************************************************************************)

NoString == <<>>

IdlePath == ext_path = NoString /\ url = NoString /\ recovered = NoString
IdleRender == data = NoArray /\ render_method = "none" /\ rendered = NoResult

Call(fn, channels, normalizer) ==
    [fn |-> fn, channels |-> channels, normalizer |-> normalizer]
NoCall == Call("none", "last", 0)

IdleNorm == norm_input = NoArray /\ call = NoCall /\ normed = NoResult

Request(route, image_path) == [route |-> route, image_path |-> image_path]
NoRequest == Request("none", NoString)

IdleRequest ==
    /\ args = [folder_path |-> NoString]
    /\ request = NoRequest
    /\ response = NoResult

IdleServer == IdleRequest /\ storage = <<>>

Lookup(fn, path) == [fn |-> fn, path |-> path]
NoLookup == Lookup("none", NoString)

IdleLookup == lookup = NoLookup /\ answer = NoResult

(***************************************************************************)
(* SpecPath: server_path and the rewrite of read_and_render_image applied *)
(* to scheme-qualified paths.                                             *)
(***************************************************************************)

\* Bound: the number of segments after the scheme (bucket or directory
\* first, file name last).
MaxSegments == 3

\* Path segments: plain names, names equal to or starting with a scheme
\* word, and file names.
Segments ==
    { <<"b">>, <<"s", "3">>, <<"g", "s">>, <<"s", "3", "x">>,
      <<"c", ".", "p", "n", "g">> }

SegmentLists == UNION { [1..n -> Segments] : n \in 1..MaxSegments }

S3Path(segs) == S3Scheme \o Join(segs, Slash)
GsPath(segs) == GsScheme \o Join(segs, Slash)
LocalPath(segs) == Slash \o Join(segs, Slash)

SchemePaths ==
    { S3Path(segs) : segs \in SegmentLists }
        \cup { GsPath(segs) : segs \in SegmentLists }
        \cup { LocalPath(segs) : segs \in SegmentLists }

InitPath ==
    /\ ext_path \in SchemePaths
    /\ url = NoString
    /\ recovered = NoString
    /\ IdleRender /\ IdleNorm /\ IdleServer /\ IdleLookup

\* index(): items = [server_path(f) for f in filelist]
MakeUrl ==
    /\ url = NoString
    /\ url' = server_path(ext_path)
    /\ UNCHANGED <<ext_path, recovered, renderVars, normVars, serverVars, storageVars>>

\* GET /images/<path>: image() and the rewrite of read_and_render_image
RequestUrl ==
    /\ url # NoString
    /\ recovered = NoString
    /\ recovered' = RewritePath(FullPath(RoutePath(url)))
    /\ UNCHANGED <<ext_path, url, renderVars, normVars, serverVars, storageVars>>

NextPath == MakeUrl \/ RequestUrl

SpecPath == InitPath /\ [][NextPath]_vars

\* The URL form the path mangling convention gives a scheme-qualified path:
\* s3://X <-> images/s3/X, gs://X <-> images/gs/X, /X <-> images/X.
ConventionUrl(p) ==
    IF StartsWith(p, S3Scheme) THEN ImagesPrefix \o <<"s", "3", "/">> \o Drop(p, 5)
    ELSE IF StartsWith(p, GsScheme) THEN ImagesPrefix \o <<"g", "s", "/">> \o Drop(p, 5)
    ELSE ImagesPrefix \o Drop(p, 1)

\* C1: path mangling is a round trip: the URL server_path produces for a
\* scheme-qualified path p has the form of the convention, and requesting
\* that URL makes read_and_render_image recover exactly p before the
\* existence check.
C1_RoundTrip ==
    /\ url # NoString => url = ConventionUrl(ext_path)
    /\ recovered # NoString => recovered = ext_path

(***************************************************************************)
(* Spec: the server.  The configuration and the storage are fixed at      *)
(* startup; the requests are handled one after the other, GET / by        *)
(* index() and GET /images/<path> by image(), and no request leaves       *)
(* anything behind.                                                       *)
(***************************************************************************)

\* Bound: the largest num_items a query gives (int(url_args["num_items"])
\* takes a negative number too, down to -MaxItems here).
MaxItems == 2

\* --num_items, default
DefaultNumItems == 100

\* The folders served: in a bucket, on the local disk, in GCS.
Folders ==
    { S3Path(<< <<"b">>, <<"a">> >>), LocalPath(<< <<"a">> >>),
      GsPath(<< <<"b">>, <<"a">> >>) }

\* --normalization and --render_method: a choice, or None for the option
\* given without a value (nargs="?")
Normalizations == {"standard", "scaling", "sigmoid", "sentinel", "None"}
RenderChoices == RenderMethods \cup {"None"}

Absent == Content("absent", NoArray)
Junk == Content("junk", NoArray)

\* What c.png holds: a gray, gray+alpha, RGB or RGBA image, or bytes that
\* are no image.
PngContents ==
    { Content("png", Array(<<1, 1>>, "uint8", 1, <<1>>)),
      Content("png", Array(<<1, 1, 2>>, "uint8", 1, <<1, 2>>)),
      Content("png", Array(<<1, 1, 3>>, "uint8", 1, <<1, 2, 0>>)),
      Content("png", Array(<<1, 1, 4>>, "uint8", 1, <<1, 2, 0, 2>>)),
      Junk }

\* What d.tif holds: a float32 RGB image or a 4-band uint16 image.
TifContents ==
    { Content("tiff", Array(<<1, 1, 3>>, "float32", 1, <<1, 2, 0>>)),
      Content("tiff", Array(<<1, 1, 4>>, "uint16", 1, <<1, 2, 0, 2>>)) }

CPng == <<"c", ".", "p", "n", "g">>
DTif == <<"d", ".", "t", "i", "f">>
ETxt == <<"e", ".", "t", "x", "t">>
XPng == <<"x", ".", "p", "n", "g">>

\* The files of a folder, in listing order.
Files(folder, c, d, e) ==
    SelectSeq(<< [path |-> OsPathJoin(folder, CPng), content |-> c],
                 [path |-> OsPathJoin(folder, DTif), content |-> d],
                 [path |-> OsPathJoin(folder, ETxt), content |-> e] >>,
              LAMBDA f : f.content # Absent)

\* The image paths a client requests: the links of the index page and the
\* convention's URLs, for the files of the folder, for the folder itself
\* and for a file that is not stored.
RequestPaths(folder) ==
    LET targets == { OsPathJoin(folder, name) : name \in {CPng, DTif, ETxt, XPng} }
                       \cup {folder}
    IN  { RoutePath(server_path(t)) : t \in targets }
            \cup { RoutePath(ConventionUrl(t)) : t \in targets }

Init ==
    /\ args \in [folder_path : Folders, normalization : Normalizations,
                 render_method : RenderChoices, num_items : {DefaultNumItems}]
    /\ \E c \in PngContents \cup {Absent}, d \in TifContents \cup {Absent} :
          storage = Files(args.folder_path, c, d, Junk)
    /\ request = NoRequest
    /\ response = NoResult
    /\ IdlePath /\ IdleRender /\ IdleNorm /\ IdleLookup

\* GET /images/<path:image_path>
GetImage ==
    /\ request = NoRequest
    /\ \E image_path \in RequestPaths(args.folder_path),
          ub \in UndefinedCasts, strict \in BOOLEAN :
          /\ request' = Request("image", image_path)
          /\ response' = Image(storage, args, image_path, ub, strict)
    /\ UNCHANGED <<args, storage, pathVars, renderVars, normVars, storageVars>>

\* GET / and GET /?num_items=<n>
GetIndex ==
    /\ request = NoRequest
    /\ \E has_query \in BOOLEAN, query_num_items \in (0 - MaxItems)..MaxItems,
          shuffle \in Shuffles(LET found == GetImageFiles(storage, args.folder_path)
                               IN  IF found.ok THEN Len(found.value) ELSE 0) :
          /\ request' = Request("index", NoString)
          /\ response' = Index(storage, args, has_query, query_num_items, shuffle)
    /\ UNCHANGED <<args, storage, pathVars, renderVars, normVars, storageVars>>

\* The response (or the error page for the exception) has gone to the
\* client; nothing of the request is kept.
Finish ==
    /\ request # NoRequest
    /\ request' = NoRequest
    /\ response' = NoResult
    /\ UNCHANGED <<args, storage, pathVars, renderVars, normVars, storageVars>>

Next == GetImage \/ GetIndex \/ Finish

Spec == Init /\ [][Next]_vars

\* A GET /images/<path> request has been handled.
ImageHandled == request.route = "image" /\ response # NoResult

\* The Storage Resolver reports the resolved path of the request as not
\* existing.
ReportedAbsent == ImageHandled /\ Exists(storage, response.path) = Ok(FALSE)

\* C2: a GET /images/<path> request whose resolved path the Storage
\* Resolver reports as not existing gets an empty body with content type
\* image/png, and the existence check is the only step executed: no read,
\* decode, render, normalize or encode.
C2_AbsentEmpty ==
    ReportedAbsent =>
        /\ response.raised = "none"
        /\ response.mimetype = "image/png"
        /\ response.body = EmptyBody
        /\ response.steps = <<"exists">>

\* A request for x.png, which the folder does not hold, has been answered.
C2_Witness ==
    /\ ReportedAbsent
    /\ response.path = OsPathJoin(args.folder_path, XPng)
    /\ response.steps = <<"exists">>

\* The handling of an existing file stopped in the decode, render or
\* normalize step.
StepFailed ==
    /\ ImageHandled
    /\ response.steps[Len(response.steps)] \in {"decode", "render", "normalize"}

\* C3: per-image failures are isolated: when decoding, rendering or
\* normalizing an existing file fails, the request ends with an empty
\* response and no exception leaves the handler.
C3_FailuresIsolated ==
    StepFailed => response.raised = "none" /\ response.body = EmptyBody

\* GET / has been handled and index() returned.
IndexReturned ==
    request.route = "index" /\ response # NoResult /\ response.raised = "none"

Min(a, b) == IF a <= b THEN a ELSE b

\* C15: for every folder listing and every integer num_items (the default
\* or the query's), GET / hands the template the first num_items entries
\* of a permutation of the filtered listing: pairwise-distinct members of
\* the listing restricted to supported extensions, min(num_items, n) of
\* them for a filtered listing of size n, never more than num_items.
C15_IndexSample ==
    IndexReturned =>
        LET listing == Glob(storage, OsPathJoin(args.folder_path, <<"*">>)).value
            filelist == response.filelist
            num_items == response.num_images
            n == Cardinality({ m \in DOMAIN listing :
                                 (<<".">> \o LastDotPart(listing[m])) \in SupportedExtensions })
        IN  /\ \A i \in DOMAIN filelist :
                  /\ \E m \in DOMAIN listing : listing[m] = filelist[i]
                  /\ (<<".">> \o LastDotPart(filelist[i])) \in SupportedExtensions
                  /\ \A j \in DOMAIN filelist : filelist[i] = filelist[j] => i = j
            /\ response.items = [i \in DOMAIN filelist |-> server_path(filelist[i])]
            /\ Len(filelist) = Min(num_items, n)
            /\ Len(filelist) <= num_items

(***************************************************************************)
(* SpecStorage: glob and exists called on a storage of S3 objects and     *)
(* local files.                                                           *)
(***************************************************************************)

\* Bound: the number of files in storage.
MaxFiles == 2

\* The keys an object is stored under in bucket b, and the local files.
StoredKeys ==
    { <<"c", ".", "p">>, <<"d", ".", "t">>, <<"a", "/", "c", ".", "p">>,
      <<"a", "b", "/", "c", ".", "p">>, <<"a", "/", "e", "/", "c", ".", "p">>,
      <<"[", "x", "]", "/", "c", ".", "p">> }

StoredLocal == { <<"/", "a", "/", "c", ".", "p">>, <<"/", "a", "/", "d", ".", "t">> }

BucketB == S3Scheme \o <<"b", "/">>

StoredPaths == { BucketB \o key : key \in StoredKeys } \cup StoredLocal

\* The storages: up to MaxFiles different files, the S3 objects in the
\* order the bucket lists them.
Storages ==
    UNION { { [n \in 1..len |-> [path |-> order[n], content |-> Junk]] :
                order \in { f \in [1..len -> StoredPaths] :
                               \A i, j \in 1..len : f[i] = f[j] => i = j } } :
            len \in 0..MaxFiles }

\* Paths with a scheme inside: a GCS object whose name holds "s3://", and
\* a local path that holds "gs://".
SchemeInside ==
    { GsScheme \o <<"b", "/">> \o S3Scheme \o <<"c", ".", "p">>,
      <<"/", "a", "/">> \o GsScheme \o <<"c", ".", "p">> }

\* The patterns listed in bucket b: wildcards in the file name, in a
\* directory name, "/**", no wildcard.
KeyPatterns ==
    { <<"*", ".", "p">>, <<"*">>, <<"c", ".", "p">>, <<"?", ".", "?">>,
      <<"[", "c", "d", "]", ".", "p">>, <<"[", "!", "c", "]", ".", "*">>,
      <<"a", "/", "*", ".", "p">>, <<"a", "/", "*">>,
      <<"a", "*", "/", "c", ".", "p">>, <<"*", "/", "c", ".", "p">>,
      <<"a", "/", "*", "*", "/", "*", ".", "p">>, <<"a", "?", "/", "*">> }

\* The patterns glob is called with: in bucket b, in a bucket that does
\* not exist, in GCS, on the local disk.
GlobPaths ==
    { BucketB \o pat : pat \in KeyPatterns }
        \cup { S3Scheme \o <<"n", "/", "*", ".", "p">>,
                GsScheme \o <<"b", "/", "*", ".", "p">>,
                <<"/", "a", "/", "*", ".", "p">>, <<"/", "a", "/", "*">>,
                <<"/", "*", "/", "c", ".", "p">> }
        \cup SchemeInside

\* The paths exists is called with: the stored keys, folders of bucket b
\* with and without the final "/", the bucket, keys that are not stored, a
\* key in a bucket that does not exist, a key that ends with "/**", a
\* folder named "[x]"; a GCS path; local files and directories.
ExistsPaths ==
    { BucketB \o key : key \in StoredKeys }
        \cup { BucketB \o key :
                  key \in { <<"a">>, <<"a", "/">>, <<"a", "/", "e">>, <<"x", ".", "p">>,
                            <<"a", "/", "x">>, <<"a", "/", "*", "*">>,
                            <<"[", "x", "]">> } }
        \cup { S3Scheme \o <<"b">>, S3Scheme \o <<"n", "/", "c", ".", "p">>,
                GsScheme \o <<"b", "/", "c", ".", "p">> }
        \cup StoredLocal
        \cup { <<"/", "a">>, <<"/", "x">> }
        \cup SchemeInside

InitStorage ==
    /\ storage \in Storages
    /\ lookup = NoLookup
    /\ answer = NoResult
    /\ IdlePath /\ IdleRender /\ IdleNorm /\ IdleRequest

\* glob(path)
CallGlob ==
    /\ lookup = NoLookup
    /\ \E path \in GlobPaths :
          /\ lookup' = Lookup("glob", path)
          /\ answer' = Glob(storage, path)
    /\ UNCHANGED <<pathVars, renderVars, normVars, serverVars>>

\* exists(path)
CallExists ==
    /\ lookup = NoLookup
    /\ \E path \in ExistsPaths :
          /\ lookup' = Lookup("exists", path)
          /\ answer' = Exists(storage, path)
    /\ UNCHANGED <<pathVars, renderVars, normVars, serverVars>>

NextStorage == CallGlob \/ CallExists

SpecStorage == InitStorage /\ [][NextStorage]_vars

\* The objects of bucket b, full paths in listing order.
StoredInB == SelectSeq(StorePaths(storage), LAMBDA f : StartsWith(f, BucketB))

\* C11: for every set of keys stored in a bucket and every s3:// pattern
\* with wildcards anywhere after the bucket name, the S3 listing returns
\* exactly the stored keys whose full path s3://bucket/key matches the
\* pattern, in the order of the backend listing; an empty bucket gives an
\* empty list, not an error.
C11_ListingExact ==
    (lookup.fn = "glob" /\ StartsWith(lookup.path, BucketB)) =>
        answer = Ok(SelectSeq(StoredInB, LAMBDA f : FnMatch(f, lookup.path)))

\* path names a folder with something in it: a stored path starts with
\* path followed by "/".
HasChild(store, path) ==
    LET folder == IF path[Len(path)] = "/" THEN path ELSE path \o Slash
    IN  \E n \in DOMAIN store : StartsWith(store[n].path, folder)

\* C12: for every set of stored keys and every s3:// path p, exists(p)
\* returns true exactly when an object is stored at the exact key p or a
\* stored key has p as a non-empty prefix (p is a folder with a child), and
\* false in every other case, a missing key and a missing bucket included;
\* it never raises.
C12_ExistsExact ==
    (lookup.fn = "exists" /\ StartsWith(lookup.path, S3Scheme)) =>
        answer = Ok((\E n \in DOMAIN storage : storage[n].path = lookup.path)
                        \/ HasChild(storage, lookup.path))

\* C13: storage dispatch is decided by the scheme prefix of the path: glob
\* and exists send a path beginning with s3:// to the cloud backend, fail
\* with NotImplementedError for every path beginning with gs://, and send
\* every other path to the local filesystem.
C13_DispatchByPrefix ==
    lookup # NoLookup =>
        IF StartsWith(lookup.path, S3Scheme)
            THEN answer = IF lookup.fn = "glob" THEN AwsGlob(storage, lookup.path)
                          ELSE AwsExists(storage, lookup.path)
        ELSE IF StartsWith(lookup.path, GsScheme)
            THEN answer = Raise("NotImplementedError")
        ELSE answer = IF lookup.fn = "glob"
                          THEN Ok(SomeOrder(LocalGlob(storage, lookup.path)))
                      ELSE Ok(LocalExists(storage, lookup.path))

(***************************************************************************)
(* SpecRender: _render_image_data applied to decoded arrays.              *)
(***************************************************************************)

\* Bounds: the largest pixel value and the largest channel count of the
\* arrays given to the renderer and to the normalizations.
MaxVal == 2
MaxChannels == 4

\* Heights and widths of the images.
Dims == {1, 2}

\* The images of one shape: the first pixel takes every combination of
\* channel values, and each later pixel is the first one shifted by step.
Ramp(shape, dtype, pix, step) ==
    LET C == Len(pix)
    IN  Array(shape, dtype, 1,
              [n \in 1..Product(shape) |->
                  (pix[((n - 1) % C) + 1] + ((n - 1) \div C) * step) % (MaxVal + 1)])

Images3(dtypes, channels) ==
    { Ramp(<<h, w, Len(pix)>>, t, pix, step) :
        h \in Dims, w \in Dims, t \in dtypes, step \in 0..1,
        pix \in UNION { [1..c -> 0..MaxVal] : c \in channels } }

Images2(dtypes) ==
    { Ramp(<<h, w>>, t, <<v>>, step) :
        h \in Dims, w \in Dims, t \in dtypes, step \in 0..1, v \in 0..MaxVal }

InitRender ==
    /\ data \in Images3({"uint8", "float32"}, 1..MaxChannels)
                    \cup Images2({"uint8", "float32"})
    /\ render_method \in RenderMethods
    /\ rendered = NoResult
    /\ IdlePath /\ IdleNorm /\ IdleServer /\ IdleLookup

\* read_image: rendered_data = _render_image_data(data, render_method)
Render ==
    /\ rendered = NoResult
    /\ rendered' = RenderImageData(data, render_method)
    /\ UNCHANGED <<data, render_method, pathVars, normVars, serverVars, storageVars>>

NextRender == Render

SpecRender == InitRender /\ [][NextRender]_vars

\* The input is one the renderer's channel selection applies to: rank 3
\* with at least 3 channels.
MultiChannelInput == Len(data.shape) = 3 /\ data.shape[3] >= 3

Rows(a) == 0..(a.shape[1] - 1)
Cols(a) == 0..(a.shape[2] - 1)

\* C4: for a rank-3 input with at least 3 channels, mode rgb returns the
\* input channels [0,1,2], mode bgr the input channels [2,1,0], mode bw one
\* channel holding 0.30*ch0 + 0.59*ch1 + 0.11*ch2 at each pixel; height and
\* width are unchanged and the channel axis is last.
C4_RenderChannels ==
    (rendered # NoResult /\ MultiChannelInput
        /\ render_method \in {"rgb", "bgr", "bw"}) =>
        /\ rendered.ok
        /\ LET out == rendered.value
           IN  /\ out.shape = <<data.shape[1], data.shape[2],
                                IF render_method = "bw" THEN 1 ELSE 3>>
               /\ Len(out.data) = Product(out.shape)
               /\ \A i \in Rows(data), j \in Cols(data) :
                    CASE render_method = "rgb" ->
                           \A k \in 0..2 :
                               At3(out, i, j, k) * data.den = At3(data, i, j, k) * out.den
                      [] render_method = "bgr" ->
                           \A k \in 0..2 :
                               At3(out, i, j, k) * data.den = At3(data, i, j, 2 - k) * out.den
                      [] render_method = "bw" ->
                           100 * data.den * At3(out, i, j, 0) =
                               out.den * (30 * At3(data, i, j, 0)
                                            + 59 * At3(data, i, j, 1)
                                            + 11 * At3(data, i, j, 2))

\* A 4-channel image with three different values in its first pixel has been
\* rendered in mode bgr.
C4_Witness ==
    /\ rendered # NoResult /\ rendered.ok
    /\ render_method = "bgr"
    /\ data.shape = <<2, 2, 4>>
    /\ At3(data, 0, 0, 0) = 0 /\ At3(data, 0, 0, 1) = 1 /\ At3(data, 0, 0, 2) = 2
    /\ At3(rendered.value, 0, 1, 0) # At3(rendered.value, 0, 0, 0)

\* C5: for every input the renderer accepts (rank 2, or rank 3 with at
\* least 3 channels) and every render mode, the rendered array has exactly
\* 1 or exactly 3 channels on its last axis, and mode sentinel on a rank-3
\* input with at least 3 channels returns the input channels [3,2,1].
C5_OneOrThreeChannels ==
    (rendered # NoResult /\ (Len(data.shape) = 2 \/ MultiChannelInput)) =>
        /\ rendered.ok
        /\ Len(rendered.value.shape) = 3
        /\ rendered.value.shape[3] \in {1, 3}
        /\ (render_method = "sentinel" /\ MultiChannelInput) =>
              \A i \in Rows(data), j \in Cols(data), k \in 0..2 :
                  At3(rendered.value, i, j, k) = At3(data, i, j, 3 - k)

(***************************************************************************)
(* SpecNorm: the normalization functions applied to arrays of rank 3 (the *)
(* renderer's output) and rank 4 (batches).                               *)
(***************************************************************************)

\* Bounds: the largest batch size, the largest normalizer given to
\* sentinel_truecolor_image and the largest factor an image is multiplied
\* by.
MaxBatch == 2
MaxNormalizer == 2
MaxFactor == 3

\* dtypes with the lowest pixel value of the images of that dtype
TypedLows ==
    { <<"uint8", 0>>, <<"uint16", 0>>, <<"float32", 0 - 1>>, <<"float64", 0 - 1>> }

\* An image whose values run from v0 in steps of cstep along the channel
\* axis and of step from pixel to pixel, wrapping within low..MaxVal.
NormRamp(shape, dtype, low, v0, cstep, step) ==
    LET C == shape[Len(shape)]
    IN  Array(shape, dtype, 1,
              [n \in 1..Product(shape) |->
                  low + ((v0 + ((n - 1) % C) * cstep + ((n - 1) \div C) * step)
                             % (MaxVal + 1 - low))])

NormShapes ==
    { <<h, w, c>> : h \in Dims, w \in Dims, c \in 1..MaxChannels }
        \cup { <<b, h, w, c>> :
                 b \in 1..MaxBatch, h \in Dims, w \in Dims, c \in 1..MaxChannels }

\* Images and batches of every shape and dtype, and the 3-channel uint16
\* images (Sentinel-2 reflectances) with every first pixel.
NormImages ==
    { NormRamp(shape, t[1], t[2], v0, cstep, step) :
        shape \in NormShapes, t \in TypedLows,
        v0 \in 0..MaxVal, cstep \in 0..MaxVal, step \in 0..1 }
        \cup Images3({"uint16"}, {3})

InitNorm ==
    /\ norm_input \in NormImages
    /\ call = NoCall
    /\ normed = NoResult
    /\ IdlePath /\ IdleRender /\ IdleServer /\ IdleLookup

\* normalize_fx["standard"](rendered_data)
CallStandard ==
    /\ call = NoCall
    /\ \E ub \in UndefinedCasts : normed' = StandardNormalization(norm_input, ub)
    /\ call' = Call("standard", "last", 0)
    /\ UNCHANGED <<norm_input, pathVars, renderVars, serverVars, storageVars>>

\* normalize_fx["scaling"](rendered_data)
CallScaling ==
    /\ call = NoCall
    /\ \E ub \in UndefinedCasts : normed' = ScalingNormalization(norm_input, ub)
    /\ call' = Call("scaling", "last", 0)
    /\ UNCHANGED <<norm_input, pathVars, renderVars, serverVars, storageVars>>

\* normalize_fx["sigmoid"](rendered_data), and sigmoid_normalization called
\* with channels="first"
CallSigmoid ==
    /\ call = NoCall
    /\ \E channels \in {"last", "first"} :
          /\ normed' = SigmoidNormalization(norm_input, channels)
          /\ call' = Call("sigmoid", channels, 0)
    /\ UNCHANGED <<norm_input, pathVars, renderVars, serverVars, storageVars>>

\* normalize_fx["sentinel"](rendered_data), and sentinel_truecolor_image
\* called with another normalizer
CallSentinel ==
    /\ call = NoCall
    /\ Len(norm_input.shape) = 3
    /\ \E normalizer \in 1..MaxNormalizer, ub \in UndefinedCasts :
          /\ normed' = SentinelTruecolorImage(norm_input, normalizer, ub)
          /\ call' = Call("sentinel", "last", normalizer)
    /\ UNCHANGED <<norm_input, pathVars, renderVars, serverVars, storageVars>>

\* The number of channels of an image in the given layout.
ChannelCount(image, channels) ==
    IF channels = "first" THEN image.shape[Len(image.shape) - 2]
    ELSE image.shape[Len(image.shape)]

\* The mean and std given for C channels: different for each channel.
MeanOf(C) == [k \in 1..C |-> k - 1]
StdOf(C) == [k \in 1..C |-> k]

\* invert_mean_std_normalization(image, mean, std, channels)
CallInvert ==
    /\ call = NoCall
    /\ \E channels \in {"last", "first"} :
          /\ normed' = InvertMeanStdNormalization(
                           norm_input, MeanOf(ChannelCount(norm_input, channels)),
                           StdOf(ChannelCount(norm_input, channels)), channels)
          /\ call' = Call("invert", channels, 0)
    /\ UNCHANGED <<norm_input, pathVars, renderVars, serverVars, storageVars>>

NextNorm ==
    CallStandard \/ CallScaling \/ CallSigmoid \/ CallSentinel \/ CallInvert

SpecNorm == InitNorm /\ [][NextNorm]_vars

\* The channel count and dtype for which standard_normalization is the
\* identity, as the claim states them.
StandardFormat(a) == a.shape[3] \in {1, 3, 4} /\ a.dtype \in {"float32", "uint8"}

C7_AlwaysUint8 ==
    (call.fn \in {"standard", "scaling", "sigmoid", "sentinel"}
        /\ call.channels = "last"
        /\ Len(norm_input.shape) = 3 /\ norm_input.shape[3] <= 3
        /\ normed.ok) =>
        normed.value.dtype = "uint8"

\* image * k
Times(a, k) == [a EXCEPT !.data = [n \in DOMAIN a.data |-> k * a.data[n]]]

\* C8: for an image whose global maximum M is greater than 0,
\* scaling_normalization maps each pixel x to trunc(255 * max(x, 0) / M):
\* the output lies in [0,255], a pixel <= 0 becomes 0, a pixel equal to M
\* becomes 255, the mapping is non-decreasing, and multiplying the whole
\* image by a positive constant leaves the output unchanged.
C8_Scaling ==
    (call.fn = "scaling" /\ SetMax(Elements(norm_input.data)) > 0) =>
        LET x == norm_input.data
            M == SetMax(Elements(x))
        IN  /\ normed.ok
            /\ normed.value.shape = norm_input.shape
            /\ DOMAIN normed.value.data = DOMAIN x
            /\ \A n \in DOMAIN x :
                  LET y == normed.value.data[n]
                  IN  /\ y = (255 * (IF x[n] > 0 THEN x[n] ELSE 0)) \div M
                      /\ y \in 0..255
                      /\ x[n] <= 0 => y = 0
                      /\ x[n] = M => y = 255
                      /\ \A m \in DOMAIN x :
                            x[n] <= x[m] => y <= normed.value.data[m]
            /\ \A k \in 1..MaxFactor, ub \in UndefinedCasts :
                  ScalingNormalization(Times(norm_input, k), ub) = normed

\* scaling_normalization has been applied to an image that holds a negative
\* pixel, a pixel between 0 and the maximum, and the maximum.
C8_Witness ==
    /\ call.fn = "scaling"
    /\ normed.ok
    /\ \E n, m, l \in DOMAIN norm_input.data :
          /\ norm_input.data[n] < 0
          /\ norm_input.data[m] > 0
          /\ norm_input.data[m] < norm_input.data[l]
          /\ normed.value.data[n] = 0
          /\ normed.value.data[m] = 127
          /\ normed.value.data[l] = 255

\* x[i] of a rank-4 array
BatchElement(x, i) == Array(Tail(x.shape), x.dtype, x.den, BatchElements(x, i))

\* C9: sigmoid_normalization treats each batch element independently: for
\* a batched input x, result[i] equals sigmoid_normalization of the
\* unbatched image x[i]; and the result for an unbatched image equals the
\* result for that image wrapped in a batch of size 1, batch axis removed.
C9_BatchIndependent ==
    (call.fn = "sigmoid" /\ call.channels = "last" /\ normed.ok) =>
        IF Len(norm_input.shape) = 4
            THEN \A i \in 0..(norm_input.shape[1] - 1) :
                    SigmoidNormalization(BatchElement(norm_input, i), "last")
                        = Ok(BatchElement(normed.value, i))
        ELSE LET wrapped == SigmoidNormalization(ExpandFirst(norm_input), "last")
             IN  wrapped.ok /\ normed = Ok(BatchElement(wrapped.value, 0))

\* The saturation test of the claim: some channel of pixel q of the
\* 3-channel image a is strictly greater than n.
Exceeds(a, q, n) == \E k \in 1..3 : a.data[3 * q + k] > n
Pixels(a) == 0..((Len(a.data) \div 3) - 1)

\* C10: for a 3-channel image with non-negative values and a positive
\* normalizer n, sentinel_truecolor_image forces all three output channels
\* of a pixel to 255 exactly for the pixels with at least one original
\* channel value strictly greater than n; every channel value v of every
\* other pixel (v = n included) maps to trunc(255 * v / n), whatever the
\* other channels hold.
C10_SentinelSaturation ==
    (call.fn = "sentinel" /\ norm_input.shape[3] = 3
        /\ \A n \in DOMAIN norm_input.data : norm_input.data[n] >= 0) =>
        /\ normed.ok
        /\ normed.value.shape = norm_input.shape
        /\ \A q \in Pixels(norm_input), k \in 1..3 :
              normed.value.data[3 * q + k] =
                  IF Exceeds(norm_input, q, call.normalizer) THEN 255
                  ELSE (255 * norm_input.data[3 * q + k]) \div call.normalizer

\* sentinel_truecolor_image has been applied to an image with a saturated
\* pixel that has a channel below the normalizer, and an unsaturated pixel
\* with one channel equal to the normalizer and another below it.
C10_Witness ==
    /\ call.fn = "sentinel" /\ normed.ok
    /\ norm_input.shape[3] = 3
    /\ \E q, r \in Pixels(norm_input) :
          /\ Exceeds(norm_input, q, call.normalizer)
          /\ \E k \in 1..3 : norm_input.data[3 * q + k] < call.normalizer
          /\ \A k \in 1..3 : normed.value.data[3 * q + k] = 255
          /\ ~Exceeds(norm_input, r, call.normalizer)
          /\ \E k, l \in 1..3 :
                /\ norm_input.data[3 * r + k] = call.normalizer
                /\ normed.value.data[3 * r + k] = 255
                /\ norm_input.data[3 * r + l] < call.normalizer
                /\ normed.value.data[3 * r + l] < 255

\* The batch-aware normalization the call named fn makes.
Reformatted(fn, image, channels) ==
    IF fn = "sigmoid" THEN SigmoidNormalization(image, channels)
    ELSE InvertMeanStdNormalization(image, MeanOf(ChannelCount(image, channels)),
                                    StdOf(ChannelCount(image, channels)), channels)

\* The channel-last image equivalent to a channel-first one, and back.
AsLast(a) ==
    IF Len(a.shape) = 3 THEN BatchElement(ToLast(ExpandFirst(a)), 0) ELSE ToLast(a)
AsFirst(a) ==
    IF Len(a.shape) = 3 THEN BatchElement(ToFirst(ExpandFirst(a)), 0) ELSE ToFirst(a)

\* C14: the reformatter's restore function reverses exactly what was
\* applied: for every input of rank 3 or 4 in either layout, axes of size 1
\* included, revert_fx(apply_fx(x)) is x; so sigmoid_normalization and
\* invert_mean_std_normalization return an array of the shape and layout of
\* their input, and a channel-first input gives the axis-permuted result
\* of the equivalent channel-last input.
C14_RestoreExact ==
    call.fn \in {"sigmoid", "invert"} =>
        LET fx == GetFormatFx(norm_input, call.channels)
            applied == FormatArray(norm_input, fx.apply_batch, fx.apply_ordering)
        IN  /\ applied.ok
            /\ FormatArray(applied.value, fx.revert_batch, fx.revert_ordering)
                   = Ok(norm_input)
            /\ normed.ok
            /\ normed.value.shape = norm_input.shape
            /\ call.channels = "first" =>
                  LET last == Reformatted(call.fn, AsLast(norm_input), "last")
                  IN  last.ok /\ normed = Ok(AsFirst(last.value))

====
